---- MODULE Spec2Model ----
(***************************************************************************)
(* Model of the spore instance pool: the intrusive ring buckets            *)
(* (InstanceList), the Instance lifecycle calls (Start, Stop, SetUsedTag)  *)
(* and the Cluster (GetInstance, StopInstance, the reconciliation pass).   *)
(*                                                                         *)
(* Every handler is an operator from a state record to a state record,     *)
(* written statement by statement after the Go source; an action applies   *)
(* one handler (Spec, SpecList) or one step of one (SpecConc).             *)
(***************************************************************************)
EXTENDS Integers, Sequences, FiniteSets, TLC

(***************************************************************************)
(* Bounds.                                                                 *)
(***************************************************************************)
\* instances of the fleet (identifiers 1..NumInst)
NumInst == 2
\* Instance records beyond those of the fleet (SpecList pushes them too)
ExtraRec == 1
\* image identifiers a caller may ask for
NumImages == 2
\* external events (tag, disk, status changes made by others) per behaviour
MaxEnv == 1
\* provider calls that fail for want of a reachable provider, per behaviour
MaxFail == 1
\* restart follow-ups of one instance that may be waiting at the same time
MaxPending == 1
\* StopInstance calls of the callers in a behaviour of SpecConc
MaxStop == 1
\* callers inside Find at the same time (SpecFind)
NumCallers == 2

\* the nil pointer
NIL == 0

\* one record per identifier: the record of identifier i is record i
Rec == 1..(NumInst + ExtraRec)
Ids == 1..NumInst
Images == 1..NumImages
Callers == 1..NumCallers

ListNames == {"starting", "avavilable", "stopping"}
\* the list field of an Instance that is in no bucket
NoList == "nil"

\* the sentinel node allocated by Init for each bucket
RootOf(l) == CASE l = "starting" -> -1 [] l = "avavilable" -> -2 [] OTHER -> -3
Roots == {RootOf(l) : l \in ListNames}
Node == Rec \cup Roots

Statuses == {"Running", "Starting", "Stopping", "Stopped"}
\* Attrs.Status of a record whose Attrs were never assigned
NoStatus == ""

\* the image the provider reports for an instance (fixed per instance)
ImageOf(i) == ((i - 1) \div 2) + 1
\* the disk the provider attaches to an instance
DiskIdOf(i) == i
InstanceOfDisk(d) == d

VARIABLES
  root,       \* InstanceList.root, per bucket: a node or NIL
  next,       \* Instance.next, per node
  prev,       \* Instance.prev, per node
  size,       \* InstanceList.size, per bucket
  list,       \* Instance.list, per record: a bucket name or NoList
  attrId,     \* Instance.Attrs.InstanceId, per record (NIL: empty string)
  status,     \* Instance.Attrs.Status, per record
  image,      \* Instance.Attrs.ImageId, per record (NIL: empty string)
  disk,       \* Instance.Disk.DiskId, per record (NIL: empty string)
  instances,  \* Cluster.instances: the identifiers that have a record
  used,       \* Cluster.used: the identifiers in the used map
  disks,      \* Cluster.disks: instance ids that have a disk in the cached list
  pStatus,    \* provider: status of each instance
  pTag,       \* provider: whether the instance carries the reservation tag
  pDisk,      \* provider: whether the disk listing has a disk of the instance
  pending,    \* per instance: restart follow-ups of StopInstance not yet run
  fault,      \* "none", or how the process died / hung
  envCount,   \* number of external events so far
  failures,   \* number of provider calls that failed so far
  last,       \* the last operation: name, argument, result, provider calls
  pc          \* positions of the concurrent tasks (SpecConc only)

vars == <<root, next, prev, size, list, attrId, status, image, disk, instances,
          used, disks, pStatus, pTag, pDisk, pending, fault, envCount, failures,
          last, pc>>

\* the current state as a record, the form the handlers work on
Cur == [root |-> root, next |-> next, prev |-> prev, size |-> size, list |-> list,
        attrId |-> attrId, status |-> status, image |-> image, disk |-> disk,
        instances |-> instances, used |-> used, disks |-> disks,
        pStatus |-> pStatus, pTag |-> pTag, pDisk |-> pDisk,
        pending |-> pending, fault |-> fault, last |-> last]

\* what `last` holds after an operation that is not observed
Quiet ==
  [op |-> "-", on |-> "", arg |-> 0, ret |-> 0, err |-> "", calls |-> <<>>,
   tags |-> {}, nodes |-> [i \in 1..NumInst |-> ""], visited |-> <<>>]

\* the next state is s; the operations named in W leave their record in `last`
Install(s, W) ==
  /\ root' = s.root /\ next' = s.next /\ prev' = s.prev /\ size' = s.size
  /\ list' = s.list /\ attrId' = s.attrId /\ status' = s.status
  /\ image' = s.image /\ disk' = s.disk /\ instances' = s.instances
  /\ used' = s.used /\ disks' = s.disks /\ pStatus' = s.pStatus
  /\ pTag' = s.pTag /\ pDisk' = s.pDisk /\ pending' = s.pending
  /\ fault' = s.fault
  /\ last' = IF s.last.op \in W THEN s.last ELSE Quiet

(***************************************************************************)
(* The record of the last operation (not program state).                   *)
(***************************************************************************)
NoNodes == [i \in Ids |-> NoStatus]

NewLast(op, arg) ==
  [op |-> op, on |-> "", arg |-> arg, ret |-> NIL, err |-> "", calls |-> <<>>,
   tags |-> {}, nodes |-> NoNodes, visited |-> <<>>]

Begin(s, op, arg) == [s EXCEPT !.last = NewLast(op, arg)]
Ret(s, r) == [s EXCEPT !.last.ret = r]
Err(s, e) == [s EXCEPT !.last.err = e]
\* a provider call, its target and whether the provider accepted it
Call(s, name, id, ok) == [s EXCEPT !.last.calls = Append(@, <<name, id, ok>>)]
Fault(s, f) == [s EXCEPT !.fault = IF @ = "none" THEN f ELSE @]

(***************************************************************************)
(* InstanceList (src/instance.go).                                         *)
(***************************************************************************)
\* longest walk of a well-formed ring, plus one
Fuel == Cardinality(Node) + 1

InitList(s, l) ==
  LET r == RootOf(l) IN
  [s EXCEPT !.root[l] = r, !.next[r] = r, !.prev[r] = r, !.size[l] = 0]

\* l.root.next on a nil root is a nil dereference; Init called with the
\* bucket's mutex already held never returns
lazyInit(s, l) ==
  IF s.root[l] = NIL THEN Fault(s, "nilderef")
  ELSE IF s.next[s.root[l]] = NIL THEN Fault(s, "deadlock")
  ELSE s

insert(s, l, e, at) ==
  LET n  == s.next[at]
      s1 == [s  EXCEPT !.next[at] = e]
      s2 == [s1 EXCEPT !.prev[e] = at]
      s3 == [s2 EXCEPT !.next[e] = n]
      s4 == [s3 EXCEPT !.prev[n] = e]
      s5 == [s4 EXCEPT !.list[e] = l]
  IN IF at = NIL \/ n = NIL THEN Fault(s, "nilderef")
     ELSE Ret([s5 EXCEPT !.size[l] = @ + 1], e)

\* the loop of Push: the first node after n, up to the root, whose identifier
\* is id; NIL when the walk reaches the root
RECURSIVE scanId(_, _, _, _, _)
scanId(s, l, n, id, fuel) ==
  IF n = s.root[l] THEN [n |-> NIL, fault |-> "none"]
  ELSE IF n = NIL THEN [n |-> NIL, fault |-> "nilderef"]
  ELSE IF fuel = 0 THEN [n |-> NIL, fault |-> "hang"]
  ELSE IF s.attrId[n] = id THEN [n |-> n, fault |-> "none"]
  ELSE scanId(s, l, s.next[n], id, fuel - 1)

\* the loop of Find: the same walk, matching the image identifier
RECURSIVE scanImage(_, _, _, _, _)
scanImage(s, l, n, img, fuel) ==
  IF n = s.root[l] THEN [n |-> NIL, fault |-> "none"]
  ELSE IF n = NIL THEN [n |-> NIL, fault |-> "nilderef"]
  ELSE IF fuel = 0 THEN [n |-> NIL, fault |-> "hang"]
  ELSE IF s.image[n] = img THEN [n |-> n, fault |-> "none"]
  ELSE scanImage(s, l, s.next[n], img, fuel - 1)

\* (mutant) Push without the scan for the identifier
PushUnchecked(s, l, e) ==
  LET s1 == lazyInit(s, l) IN
  IF s1.fault # "none" THEN s1
  ELSE insert(s1, l, e, s1.prev[s1.root[l]])

Push(s, l, e) ==
  LET s1 == lazyInit(s, l) IN
  IF s1.fault # "none" THEN s1
  ELSE LET f == scanId(s1, l, s1.next[s1.root[l]], s1.attrId[e], Fuel) IN
       IF f.fault # "none" THEN Fault(s1, f.fault)
       ELSE IF f.n # NIL THEN Ret(s1, NIL)
       ELSE insert(s1, l, e, s1.prev[s1.root[l]])

Remove(s, l, e) ==
  LET p  == s.prev[e]
      s1 == [s  EXCEPT !.next[p] = s.next[e]]
      n  == s1.next[e]
      s2 == [s1 EXCEPT !.prev[n] = s1.prev[e]]
      s3 == [s2 EXCEPT !.next[e] = NIL]
      s4 == [s3 EXCEPT !.prev[e] = NIL]
      s5 == [s4 EXCEPT !.list[e] = NoList]
  IN IF p = NIL \/ n = NIL THEN Fault(s, "nilderef")
     ELSE Ret([s5 EXCEPT !.size[l] = @ - 1], e)

\* (mutant) the walk of Find runs from the tail to the head
RECURSIVE scanImageBack(_, _, _, _, _)
scanImageBack(s, l, n, img, fuel) ==
  IF n = s.root[l] THEN [n |-> NIL, fault |-> "none"]
  ELSE IF n = NIL THEN [n |-> NIL, fault |-> "nilderef"]
  ELSE IF fuel = 0 THEN [n |-> NIL, fault |-> "hang"]
  ELSE IF s.image[n] = img THEN [n |-> n, fault |-> "none"]
  ELSE scanImageBack(s, l, s.prev[n], img, fuel - 1)

FindFromTail(s, l, img) ==
  IF s.root[l] = NIL THEN Fault(s, "nilderef")
  ELSE LET f == scanImageBack(s, l, s.prev[s.root[l]], img, Fuel) IN
       IF f.fault # "none" THEN Fault(s, f.fault)
       ELSE IF f.n # NIL THEN Remove(s, l, f.n)
       ELSE Ret(s, NIL)

Find(s, l, img) ==
  IF s.root[l] = NIL THEN Fault(s, "nilderef")
  ELSE LET f == scanImage(s, l, s.next[s.root[l]], img, Fuel) IN
       IF f.fault # "none" THEN Fault(s, f.fault)
       ELSE IF f.n # NIL THEN Remove(s, l, f.n)
       ELSE Ret(s, NIL)

ListLen(s, l) == s.size[l]

\* the nodes of a ring from head to tail, as the loops of Push and Find
\* visit them
RECURSIVE RingFrom(_, _, _, _)
RingFrom(s, l, n, fuel) ==
  IF n = s.root[l] \/ n = NIL \/ fuel = 0 THEN <<>>
  ELSE <<n>> \o RingFrom(s, l, s.next[n], fuel - 1)

Ring(s, l) == IF s.root[l] = NIL THEN <<>>
              ELSE RingFrom(s, l, s.next[s.root[l]], Fuel)

Range(q) == {q[k] : k \in 1..Len(q)}
Members(s, l) == Range(Ring(s, l))

(***************************************************************************)
(* The provider, as the calls of the program see it.  A call fails when    *)
(* the provider is unreachable (the caller's input says so) or when the    *)
(* instance is not in the status the call needs.                           *)
(***************************************************************************)
RemoveTags(s, id, ok) ==
  LET s1 == Call(s, "RemoveTags", id, ok) IN
  IF ok /\ id \in Ids THEN [s1 EXCEPT !.pTag[id] = FALSE] ELSE s1

AddTags(s, id, ok) ==
  LET s1 == Call(s, "AddTags", id, ok) IN
  IF ok THEN Err([s1 EXCEPT !.pTag[id] = TRUE], "") ELSE Err(s1, "provider")

ReInitDisk(s, d, ok) ==
  LET acc == ok /\ d # NIL /\ s.pStatus[InstanceOfDisk(d)] = "Stopped" IN
  Err(Call(s, "ReInitDisk", d, acc), IF acc THEN "" ELSE "provider")

StartInstance(s, id, ok) ==
  LET acc == ok /\ id \in Ids /\ s.pStatus[id] = "Stopped"
      s1  == Call(s, "StartInstance", id, acc) IN
  IF acc THEN Err([s1 EXCEPT !.pStatus[id] = "Starting"], "")
  ELSE Err(s1, "provider")

StopInstanceCall(s, id, ok) ==
  LET acc == ok /\ id \in Ids /\ s.pStatus[id] = "Running"
      s1  == Call(s, "StopInstance", id, acc) IN
  IF acc THEN Err([s1 EXCEPT !.pStatus[id] = "Stopping"], "")
  ELSE Err(s1, "provider")

\* what the provider does to the calls of one Start or Stop: whether the tag
\* call goes through, and which later call (if any) it refuses
Outcomes == [tagOk : BOOLEAN, fail : {"none", "ReInitDisk", "StartInstance", "StopInstance"}]
StartOutcomes == {o \in Outcomes : o.fail # "StopInstance"}
StopOutcomes == {o \in Outcomes : o.fail \in {"none", "StopInstance"}}

(***************************************************************************)
(* Instance (src/instance.go).                                             *)
(***************************************************************************)
\* (mutant) Start() gives up when the tag clear fails
StartTagFatal(s, e, o) ==
  IF s.status[e] # "Stopped" THEN Err(s, "InvalidState")
  ELSE LET s1 == RemoveTags(s, s.attrId[e], o.tagOk)
           s2 == ReInitDisk(s1, s.disk[e], o.fail # "ReInitDisk")
       IN IF ~o.tagOk THEN Err(s1, "provider")
          ELSE IF s2.last.err # "" THEN s2
          ELSE StartInstance(s2, s.attrId[e], o.fail # "StartInstance")

Start(s, e, o) ==
  IF s.status[e] # "Stopped" THEN Err(s, "InvalidState")
  ELSE LET s1 == RemoveTags(s, s.attrId[e], o.tagOk)
           s2 == ReInitDisk(s1, s.disk[e], o.fail # "ReInitDisk")
       IN IF s2.last.err # "" THEN s2
          ELSE StartInstance(s2, s.attrId[e], o.fail # "StartInstance")

Stop(s, e, o) ==
  IF s.status[e] # "Running" THEN Err(s, "InvalidState")
  ELSE LET s1 == RemoveTags(s, s.attrId[e], o.tagOk)
       IN StopInstanceCall(s1, s.attrId[e], o.fail # "StopInstance")

SetUsedTag(s, e, ok) == AddTags(s, s.attrId[e], ok)

(***************************************************************************)
(* Cluster (src/unnamed/part_001).                                         *)
(***************************************************************************)
\* (mutant) the handed-out instance is not recorded in the used map
GetInstanceForget(s0, imageId, tagOk) ==
  LET s  == Begin(s0, "GetInstance", imageId)
      s1 == Find(s, "avavilable", imageId)
      e  == s1.last.ret
      s2 == SetUsedTag(s1, e, tagOk)
  IN IF s1.fault # "none" THEN s1
     ELSE IF e = NIL THEN s1
     ELSE IF s2.last.err # ""
          THEN Ret(Err(Push(s2, "avavilable", e), ""), NIL)
     ELSE Ret(Err(s2, ""), e)

\* (mutant) a failed tag call does not put the instance back
GetInstanceNoUndo(s0, imageId, tagOk) ==
  LET s  == Begin(s0, "GetInstance", imageId)
      s1 == Find(s, "avavilable", imageId)
      e  == s1.last.ret
      s2 == SetUsedTag(s1, e, tagOk)
  IN IF s1.fault # "none" THEN s1
     ELSE IF e = NIL THEN s1
     ELSE IF s2.last.err # "" THEN Ret(Err(s2, ""), NIL)
     ELSE Ret(Err([s2 EXCEPT !.used = @ \cup {s2.attrId[e]}], ""), e)

GetInstance(s0, imageId, tagOk) ==
  LET s  == Begin(s0, "GetInstance", imageId)
      s1 == Find(s, "avavilable", imageId)
      e  == s1.last.ret
      s2 == SetUsedTag(s1, e, tagOk)
  IN IF s1.fault # "none" THEN s1
     ELSE IF e = NIL THEN s1
     ELSE IF s2.last.err # ""
          THEN Ret(Err(Push(s2, "avavilable", e), ""), NIL)
     ELSE Ret(Err([s2 EXCEPT !.used = @ \cup {s2.attrId[e]}], ""), e)

\* the body of the goroutine StopInstance starts
Restart(s0, e, o) ==
  LET s  == Begin([s0 EXCEPT !.pending[e] = @ - 1], "Restart", e)
      st == s.status[e]
      s1 == Start([s EXCEPT !.status[e] = "Stopped"], e, o)
  IN IF s1.last.err # "" THEN [s1 EXCEPT !.status[e] = st] ELSE s1

\* (mutant) the instance leaves the used map before Stop() is tried
StopInstanceEager(s0, instanceId, o) ==
  LET s  == Begin(s0, "StopInstance", instanceId)
      s1 == Stop([s EXCEPT !.used = @ \ {instanceId}], instanceId, o)
  IN IF instanceId \notin s.instances THEN Err(s, "not found")
     ELSE IF instanceId \notin s.used THEN Err(s, "not used")
     ELSE IF s1.last.err # "" THEN s1
     ELSE [s1 EXCEPT !.pending[instanceId] = @ + 1]

StopInstance(s0, instanceId, o) ==
  LET s  == Begin(s0, "StopInstance", instanceId)
      s1 == Stop(s, instanceId, o)
  IN IF instanceId \notin s.instances THEN Err(s, "not found")
     ELSE IF instanceId \notin s.used THEN Err(s, "not used")
     ELSE IF s1.last.err # "" THEN s1
     ELSE [s1 EXCEPT !.used = @ \ {s1.attrId[instanceId]},
                     !.pending[instanceId] = @ + 1]

RefreshDisks(s, ok) ==
  LET s1 == Call(s, "DescribeDisks", NIL, ok) IN
  IF ok THEN Err([s1 EXCEPT !.disks = {i \in Ids : s.pDisk[i]}], "")
  ELSE Err(s1, "provider")

\* lines 232-245, one resource of the tag listing
Reserve(s, id) ==
  IF id \notin s.instances
  THEN [s EXCEPT !.instances = @ \cup {id}, !.used = @ \cup {id}]
  ELSE LET s1 == IF s.list[id] # NoList THEN Remove(s, s.list[id], id) ELSE s
       IN [s1 EXCEPT !.used = @ \cup {id}]

\* (mutant) the record is taken out and pushed again even when it is in the
\* bucket of its status already
MoveToAlways(s, l, e) ==
  IF s.list[e] = NoList THEN Push(s, l, e)
  ELSE Push(Remove(s, s.list[e], e), l, e)

\* the three cases that move a record to the bucket of its status
MoveTo(s, l, e) ==
  IF s.list[e] = NoList THEN Push(s, l, e)
  ELSE IF s.list[e] # l THEN Push(Remove(s, s.list[e], e), l, e)
  ELSE s

\* lines 250-308, one node of the instance listing
Check(s, id, st, o) ==
  LET known == id \in s.instances
      \* the record is the indexed one, or a fresh one with an empty Disk
      d  == IF id \in s.disks THEN DiskIdOf(id)
            ELSE IF known THEN s.disk[id] ELSE NIL
      s2 == [s EXCEPT !.disk[id] = d, !.attrId[id] = id, !.status[id] = st,
                      !.image[id] = ImageOf(id),
                      !.instances = @ \cup {id},
                      !.last.visited = Append(@, id)]
      s3 == IF s2.list[id] # NoList THEN Remove(s2, s2.list[id], id) ELSE s2
  IN IF d = NIL THEN s
     ELSE CASE st = "Running" ->
                 IF id \notin s2.used THEN MoveTo(s2, "avavilable", id) ELSE s2
            [] st = "Starting" -> MoveTo(s2, "starting", id)
            [] st = "Stopping" -> MoveTo(s2, "stopping", id)
            [] st = "Stopped" -> Err(Start(s3, id, o), "")
            [] OTHER -> s2

RECURSIVE ReserveAll(_, _)
ReserveAll(s, resources) ==
  IF resources = <<>> \/ s.fault # "none" THEN s
  ELSE ReserveAll(Reserve(s, Head(resources)), Tail(resources))

\* (mutant) the status loop gives up at the first provider call that fails
RECURSIVE CheckAllAbort(_, _, _, _)
CheckAllAbort(s, order, nodes, outs) ==
  IF order = <<>> \/ s.fault # "none" THEN s
  ELSE LET s1 == Check(s, Head(order), nodes[Head(order)], outs[Head(order)])
           n  == Len(s1.last.calls)
       IN IF n > Len(s.last.calls) /\ ~s1.last.calls[n][3] THEN s1
          ELSE CheckAllAbort(s1, Tail(order), nodes, outs)

RECURSIVE CheckAll(_, _, _, _)
CheckAll(s, order, nodes, outs) ==
  IF order = <<>> \/ s.fault # "none" THEN s
  ELSE CheckAll(Check(s, Head(order), nodes[Head(order)], outs[Head(order)]),
                Tail(order), nodes, outs)

\* a set of identifiers as the provider lists it, in ascending order
RECURSIVE Listing(_)
Listing(S) ==
  IF S = {} THEN <<>>
  ELSE LET m == CHOOSE x \in S : \A y \in S : x <= y IN <<m>> \o Listing(S \ {m})

RefreshInstances(s, instOk, tagsOk, outs) ==
  LET s1 == Call(s, "DescribeInstances", NIL, instOk)
      s2 == Call(s1, "DescribeResourceByTags", NIL, tagsOk)
      resources == {i \in Ids : s.pTag[i]}
      s3 == [s2 EXCEPT !.last.tags = resources, !.last.nodes = s.pStatus]
  IN IF ~instOk THEN Err(s1, "provider")
     ELSE IF ~tagsOk THEN Err(s2, "provider")
     ELSE Ret(Err(CheckAll(ReserveAll(s3, Listing(resources)),
                           Listing(Ids), s.pStatus, outs), ""), NIL)

\* the body of refreshLoop: the error of RefreshDisks is dropped
Refresh(s0, disksOk, instOk, tagsOk, outs) ==
  RefreshInstances(RefreshDisks(Begin(s0, "Refresh", NIL), disksOk),
                   instOk, tagsOk, outs)

(***************************************************************************)
(* Spec: the handlers run one at a time, each to completion, while the     *)
(* provider and other actors change the fleet between them.                *)
(***************************************************************************)
\* the loop between passes and no caller inside GetInstance
NoPc == [pass |-> "idle", nodes |-> [i \in Ids |-> NoStatus],
         resources |-> <<>>, order |-> <<>>,
         get |-> "idle", e |-> NIL, handed |-> {}, stops |-> 0,
         released |-> {},
         find |-> [c \in Callers |-> [at |-> "idle", n |-> NIL, img |-> NIL]],
         got |-> [c \in Callers |-> {}],
         loop |-> "select", stopCh |-> NIL, stopAsked |-> FALSE]

\* the Cluster literal of NewCluster: three initialized buckets, empty maps
NewCluster ==
  LET z == [root |-> [l \in ListNames |-> NIL],
            next |-> [n \in Node |-> NIL], prev |-> [n \in Node |-> NIL],
            size |-> [l \in ListNames |-> 0],
            list |-> [e \in Rec |-> NoList],
            attrId |-> [n \in Node |-> NIL], status |-> [e \in Rec |-> NoStatus],
            image |-> [n \in Node |-> NIL], disk |-> [e \in Rec |-> NIL],
            instances |-> {}, used |-> {}, disks |-> {},
            pStatus |-> [i \in Ids |-> "Running"],
            pTag |-> [i \in Ids |-> FALSE], pDisk |-> [i \in Ids |-> TRUE],
            pending |-> [i \in Ids |-> 0], fault |-> "none",
            last |-> Quiet]
  IN InitList(InitList(InitList(z, "starting"), "avavilable"), "stopping")

Init ==
  /\ LET s == NewCluster IN
       /\ root = s.root /\ next = s.next /\ prev = s.prev /\ size = s.size
       /\ list = s.list /\ attrId = s.attrId /\ status = s.status
       /\ image = s.image /\ disk = s.disk /\ instances = s.instances
       /\ used = s.used /\ disks = s.disks /\ pStatus = s.pStatus
       /\ pTag = s.pTag /\ pDisk = s.pDisk /\ pending = s.pending
       /\ fault = s.fault /\ last = s.last
  /\ envCount = 0
  /\ failures = 0
  /\ pc = NoPc

Alive == fault = "none"

\* the variables of the program proper
progVars == <<root, next, prev, size, list, attrId, status, image, disk,
              instances, used, disks, pending, fault>>

\* the calls of an outcome that fail, and those of the answers to a pass
Cost(o) == (IF o.tagOk THEN 0 ELSE 1) + (IF o.fail = "none" THEN 0 ELSE 1)
No(b) == IF b THEN 0 ELSE 1
RECURSIVE SumCost(_, _)
SumCost(outs, S) ==
  IF S = {} THEN 0
  ELSE LET i == CHOOSE x \in S : TRUE IN Cost(outs[i]) + SumCost(outs, S \ {i})

\* the operation fails n more provider calls, within the budget
Fail(n) == failures + n <= MaxFail /\ failures' = failures + n

NoFailure == [tagOk |-> TRUE, fail |-> "none"]
\* the provider's answers to the Start calls of a pass: only the instances
\* the listing reports Stopped are started
PassOutcomes ==
  LET S == {i \in Ids : pStatus[i] = "Stopped"} IN
  {[i \in Ids |-> IF i \in S THEN f[i] ELSE NoFailure] : f \in [S -> StartOutcomes]}

\* the provider's answers that a StopInstance(id) can meet
StopChoices(id) ==
  IF id \in used /\ status[id] = "Running" THEN StopOutcomes ELSE {NoFailure}

\* a pass of refreshLoop: RefreshDisks, then RefreshInstances
DoRefresh(W) ==
  /\ Alive
  /\ \E disksOk \in BOOLEAN :
       \/ \E outs \in PassOutcomes :
            /\ Fail(No(disksOk) + SumCost(outs, Ids))
            /\ Install(Refresh(Cur, disksOk, TRUE, TRUE, outs), W)
       \/ \E instOk \in BOOLEAN :
            /\ Fail(No(disksOk) + 1)
            /\ Install(Refresh(Cur, disksOk, instOk, FALSE,
                               [i \in Ids |-> NoFailure]), W)
  /\ UNCHANGED <<envCount, pc>>

DoGetInstance(W) ==
  /\ Alive
  /\ \E imageId \in Images, tagOk \in BOOLEAN :
       LET s == GetInstance(Cur, imageId, tagOk) IN
       \* a tag call that is not made cannot fail
       /\ tagOk \/ s.last.calls # <<>>
       /\ Fail(No(tagOk))
       /\ Install(s, W)
  /\ UNCHANGED <<envCount, pc>>

DoStopInstance(W) ==
  /\ Alive
  /\ \E id \in Ids : \E o \in StopChoices(id) :
       LET s == StopInstance(Cur, id, o) IN
       /\ s.pending[id] <= MaxPending
       /\ Fail(Cost(o))
       /\ Install(s, W)
  /\ UNCHANGED <<envCount, pc>>

\* the follow-up that StopInstance scheduled runs
DoRestart(W) ==
  /\ Alive
  /\ \E id \in Ids, o \in StartOutcomes :
       /\ pending[id] > 0
       /\ Fail(Cost(o))
       /\ Install(Restart(Cur, id, o), W)
  /\ UNCHANGED <<envCount, pc>>

\* the provider finishes a stop or a start
ProviderAdvance ==
  /\ \E i \in Ids :
       /\ pStatus[i] \in {"Stopping", "Starting"}
       /\ pStatus' = [pStatus EXCEPT
                        ![i] = IF @ = "Stopping" THEN "Stopped" ELSE "Running"]
  /\ last' = Quiet
  /\ UNCHANGED <<progVars, pTag, pDisk, envCount, failures, pc>>

\* another process or an operator sets or clears the reservation tag
ExternalTag ==
  /\ envCount < MaxEnv
  /\ \E i \in Ids : pTag' = [pTag EXCEPT ![i] = ~@]
  /\ last' = Quiet
  /\ envCount' = envCount + 1
  /\ UNCHANGED <<progVars, pStatus, pDisk, failures, pc>>

\* a disk is detached from or attached to an instance
ExternalDisk ==
  /\ envCount < MaxEnv
  /\ \E i \in Ids : pDisk' = [pDisk EXCEPT ![i] = ~@]
  /\ last' = Quiet
  /\ envCount' = envCount + 1
  /\ UNCHANGED <<progVars, pStatus, pTag, failures, pc>>

Next(W) ==
  \/ DoRefresh(W)
  \/ DoGetInstance(W)
  \/ DoStopInstance(W)
  \/ DoRestart(W)
  \/ ProviderAdvance
  \/ ExternalTag
  \/ ExternalDisk

NextPlain == Next({})
NextGet == Next({"GetInstance"})
NextStop == Next({"StopInstance"})
NextPass == Next({"Refresh"})

\* no operation observed
Spec == Init /\ [][NextPlain]_vars
\* GetInstance observed
SpecGet == Init /\ [][NextGet]_vars
\* StopInstance observed
SpecStop == Init /\ [][NextStop]_vars
\* the reconciliation pass observed
SpecPass == Init /\ [][NextPass]_vars

(***************************************************************************)
(* SpecList: the bucket operations on their own.  Records carry any        *)
(* identifier and image, so two records may share one; Push is given a     *)
(* record that is in no bucket or in the bucket itself, Remove a member of *)
(* the bucket, as the Cluster does.                                        *)
(***************************************************************************)
InitBuckets ==
  /\ \E ids \in [Rec -> Rec], imgs \in [Rec -> Images] :
       LET s == NewCluster IN
       \* identifiers and images are numbered in the order the records use them
       /\ \A e \in Rec : ids[e] <= e /\ imgs[e] <= e
       /\ root = s.root /\ next = s.next /\ prev = s.prev /\ size = s.size
       /\ list = s.list /\ status = s.status /\ disk = s.disk
       /\ attrId = [n \in Node |-> IF n \in Rec THEN ids[n] ELSE NIL]
       /\ image = [n \in Node |-> IF n \in Rec THEN imgs[n] ELSE NIL]
       /\ instances = s.instances /\ used = s.used /\ disks = s.disks
       /\ pStatus = s.pStatus /\ pTag = s.pTag /\ pDisk = s.pDisk
       /\ pending = s.pending /\ fault = s.fault /\ last = s.last
  /\ envCount = 0
  /\ failures = 0
  /\ pc = NoPc

ListOps == {"Push", "Remove", "Find"}
\* the call op(arg) on bucket l starts; the ring it finds is noted
BeginOn(s, op, l, arg) ==
  [s EXCEPT !.last = [NewLast(op, arg) EXCEPT !.on = l, !.visited = Ring(s, l)]]

DoPush ==
  /\ Alive
  /\ \E l \in ListNames, e \in Rec :
       /\ list[e] \in {NoList, l}
       /\ Install(Push(BeginOn(Cur, "Push", l, e), l, e), ListOps)
  /\ UNCHANGED <<envCount, failures, pc>>

DoRemove ==
  /\ Alive
  /\ \E l \in ListNames, e \in Rec :
       /\ list[e] = l
       /\ Install(Remove(BeginOn(Cur, "Remove", l, e), l, e), ListOps)
  /\ UNCHANGED <<envCount, failures, pc>>

DoFind ==
  /\ Alive
  /\ \E l \in ListNames, imageId \in Images :
       Install(Find(BeginOn(Cur, "Find", l, imageId), l, imageId), ListOps)
  /\ UNCHANGED <<envCount, failures, pc>>

NextList ==
  \/ DoPush
  \/ DoRemove
  \/ DoFind

SpecList == InitBuckets /\ [][NextList]_vars

(***************************************************************************)
(* SpecConc: the background loop and a caller of GetInstance run           *)
(* concurrently.  A step is one provider call or one iteration of a loop   *)
(* of the pass, or one statement group of GetInstance between two calls;   *)
(* pc holds the position and the locals of both tasks, and the set of      *)
(* instances handed to callers and not released.                           *)
(***************************************************************************)
\* every bucket of s is a ring through its root: the links of neighbours
\* agree, the nodes name the bucket and are as many as its population says; a
\* record outside all rings has no links and names no bucket
ConsistentIn(s) ==
  /\ \A l \in ListNames :
       LET r == Ring(s, l)
           w == <<s.root[l]>> \o r \o <<s.root[l]>>
       IN /\ \A k \in 1..(Len(w) - 1) :
               s.next[w[k]] = w[k + 1] /\ s.prev[w[k + 1]] = w[k]
          /\ \A k \in DOMAIN r : r[k] \in Rec /\ s.list[r[k]] = l
          /\ s.size[l] = Len(r)
  /\ \A e \in Rec :
       IF s.list[e] = NoList THEN s.next[e] = NIL /\ s.prev[e] = NIL
       ELSE e \in Members(s, s.list[e])
Consistent == ConsistentIn(Cur)

\* a step of SpecConc leads to s.  A behaviour is followed up to the first
\* broken ring (after it populations and walks have no bound): the state
\* with the broken ring is marked and has no successor.  In SpecConc the
\* provider refuses no call but the tag call of GetInstance.
Step(s) == Install(IF ConsistentIn(s) THEN s ELSE Fault(s, "broken ring"), {})

\* refreshLoop calls RefreshDisks (part_001:137)
PassDisks ==
  /\ Alive /\ pc.pass = "idle"
  /\ Step(RefreshDisks(Begin(Cur, "Refresh", NIL), TRUE))
  /\ pc' = [pc EXCEPT !.pass = "disks"]
  /\ UNCHANGED <<envCount, failures>>

\* RefreshInstances lists the instances (part_001:187-203)
PassInstances ==
  /\ Alive /\ pc.pass = "disks"
  /\ pc' = [pc EXCEPT !.pass = "instances", !.nodes = pStatus]
  /\ last' = Quiet
  /\ UNCHANGED <<progVars, pStatus, pTag, pDisk, envCount, failures>>

\* RefreshInstances lists the tagged resources (part_001:207-230)
PassTags ==
  /\ Alive /\ pc.pass = "instances"
  /\ pc' = [pc EXCEPT !.pass = "loops",
                      !.resources = Listing({i \in Ids : pTag[i]}),
                      !.order = Listing(Ids)]
  /\ last' = Quiet
  /\ UNCHANGED <<progVars, pStatus, pTag, pDisk, envCount, failures>>

\* one iteration of the loop over the tagged resources (part_001:232-245)
PassReserve ==
  /\ Alive /\ pc.pass = "loops" /\ pc.resources # <<>>
  /\ Step(Reserve(Cur, Head(pc.resources)))
  /\ pc' = [pc EXCEPT !.resources = Tail(@)]
  /\ UNCHANGED <<envCount, failures>>

\* one iteration of the loop over the listed instances (part_001:250-308);
\* after the last one the pass is over
PassCheck ==
  /\ Alive /\ pc.pass = "loops" /\ pc.resources = <<>> /\ pc.order # <<>>
  /\ LET id == Head(pc.order) IN
       Step(Check(Cur, id, pc.nodes[id], NoFailure))
  /\ pc' = IF Len(pc.order) = 1
           THEN [pc EXCEPT !.pass = "idle", !.order = <<>>, !.nodes = NoPc.nodes]
           ELSE [pc EXCEPT !.order = Tail(@)]
  /\ UNCHANGED <<envCount, failures>>

\* GetInstance up to the tag call (part_001:85-88)
GetFind ==
  /\ Alive /\ pc.get = "idle"
  /\ \E imageId \in Images :
       LET s == Find(Begin(Cur, "GetInstance", imageId), "avavilable", imageId) IN
       /\ Step(s)
       /\ pc' = IF s.last.ret = NIL \/ s.fault # "none" THEN pc
                ELSE [pc EXCEPT !.get = "found", !.e = s.last.ret]
  /\ UNCHANGED <<envCount, failures>>

\* the tag call of GetInstance (part_001:89)
GetTag ==
  /\ Alive /\ pc.get = "found"
  /\ \E ok \in BOOLEAN :
       /\ Step(SetUsedTag(Cur, pc.e, ok))
       /\ pc' = [pc EXCEPT !.get = IF ok THEN "tagged" ELSE "refused"]
  /\ UNCHANGED <<envCount, failures>>

\* GetInstance after a refused tag call (part_001:90-92)
GetUndo ==
  /\ Alive /\ pc.get = "refused"
  /\ Step(Push(Cur, "avavilable", pc.e))
  /\ pc' = [pc EXCEPT !.get = "idle", !.e = NIL]
  /\ UNCHANGED <<envCount, failures>>

\* GetInstance after an accepted tag call (part_001:94-96): the caller has
\* the instance from here on
GetRecord ==
  /\ Alive /\ pc.get = "tagged"
  /\ Step([Cur EXCEPT !.used = @ \cup {attrId[pc.e]}])
  /\ pc' = [pc EXCEPT !.get = "idle", !.e = NIL, !.handed = @ \cup {pc.e}]
  /\ UNCHANGED <<envCount, failures>>

\* a caller runs StopInstance (part_001:100-127); a success releases the
\* instance
ConcStopInstance ==
  /\ Alive /\ pc.stops < MaxStop
  /\ \E id \in Ids :
       LET s == StopInstance(Cur, id, NoFailure) IN
       /\ s.pending[id] <= MaxPending
       /\ Step(s)
       /\ pc' = [pc EXCEPT !.stops = @ + 1,
                           !.handed = IF s.last.err = "" THEN @ \ {id} ELSE @,
                           !.released = IF s.last.err = "" THEN @ \cup {id}
                                        ELSE @]
  /\ UNCHANGED <<envCount, failures>>

\* the follow-up of a StopInstance runs (part_001:117-124)
ConcRestart ==
  /\ Alive
  /\ \E id \in Ids :
       /\ pending[id] > 0
       /\ Step(Restart(Cur, id, NoFailure))
  /\ UNCHANGED <<envCount, failures, pc>>

NextConc ==
  \/ PassDisks
  \/ PassInstances
  \/ PassTags
  \/ PassReserve
  \/ PassCheck
  \/ GetFind
  \/ GetTag
  \/ GetUndo
  \/ GetRecord
  \/ ConcStopInstance
  \/ ConcRestart
  \/ ProviderAdvance

SpecConc == Init /\ [][NextConc]_vars

(***************************************************************************)
(* SpecFind: callers run Find on the available bucket concurrently.  A     *)
(* step of a caller is one iteration of the loop of Find, which holds no   *)
(* lock, or its call of Remove, which holds the bucket's lock from its     *)
(* first statement to its last.  pc.find holds each caller's position and  *)
(* its local n, pc.got the instances Find returned to it.                  *)
(***************************************************************************)
\* the caller is outside Find
Outside == [at |-> "idle", n |-> NIL, img |-> NIL]

\* the bucket is filled while no caller is inside Find; an instance that is
\* pushed back is no longer its caller's
FindPush ==
  /\ Alive /\ \A c \in Callers : pc.find[c].at = "idle"
  /\ \E e \in Rec :
       /\ list[e] = NoList
       /\ Install(Push(Cur, "avavilable", e), {})
       /\ pc' = [pc EXCEPT !.got = [c \in Callers |-> @[c] \ {e}]]
  /\ UNCHANGED <<envCount, failures>>

\* n := l.root.next (instance.go:156)
FindBegin ==
  /\ Alive
  /\ \E c \in Callers, imageId \in Images :
       /\ pc.find[c].at = "idle"
       /\ pc' = [pc EXCEPT !.find[c] = [at |-> "loop", img |-> imageId,
                                        n |-> next[root["avavilable"]]]]
  /\ last' = Quiet
  /\ UNCHANGED <<progVars, pStatus, pTag, pDisk, envCount, failures>>

\* one iteration of the loop (instance.go:156-160): the test n != l.root,
\* the comparison of n.Attrs.ImageId, and either the call of Remove or
\* n = n.next; n.Attrs and n.next on a nil n are a nil dereference
FindLoop ==
  /\ Alive
  /\ \E c \in Callers :
       LET f == pc.find[c] IN
       /\ f.at = "loop"
       /\ IF f.n = root["avavilable"]
          THEN /\ pc' = [pc EXCEPT !.find[c] = Outside]
               /\ Install(Cur, {})
          ELSE IF f.n = NIL
          THEN /\ pc' = [pc EXCEPT !.find[c] = Outside]
               /\ Install(Fault(Cur, "nilderef"), {})
          ELSE IF image[f.n] = f.img
          THEN /\ pc' = [pc EXCEPT !.find[c].at = "remove"]
               /\ Install(Cur, {})
          ELSE /\ pc' = [pc EXCEPT !.find[c].n = next[f.n]]
               /\ Install(Cur, {})
  /\ UNCHANGED <<envCount, failures>>

\* return l.Remove(n) (instance.go:158, 143-153)
FindRemove ==
  /\ Alive
  /\ \E c \in Callers :
       LET f == pc.find[c]
           s == Remove(Cur, "avavilable", f.n)
       IN /\ f.at = "remove"
          /\ Install(s, {})
          /\ pc' = IF s.fault # "none" THEN [pc EXCEPT !.find[c] = Outside]
                   ELSE [pc EXCEPT !.find[c] = Outside, !.got[c] = @ \cup {f.n}]
  /\ UNCHANGED <<envCount, failures>>

NextFind ==
  \/ FindPush
  \/ FindBegin
  \/ FindLoop
  \/ FindRemove

SpecFind == InitBuckets /\ [][NextFind]_vars

(***************************************************************************)
(* SpecLoop: refreshLoop as a task.  The loop is at its select or inside a *)
(* pass; the callers and the provider act between its steps.  NewCluster   *)
(* leaves Cluster.stopCh at its zero value, the nil channel (part_001:     *)
(* 56-63), and nothing assigns it afterwards.                              *)
(***************************************************************************)
\* the stop signal is given on c.stopCh: a send on the nil channel blocks
\* the sender for ever and wakes no receiver, a close of it panics
SignalStop ==
  /\ Alive /\ ~pc.stopAsked
  /\ \E how \in {"send", "close"} :
       Install(IF how = "close" THEN Fault(Cur, "close of nil channel") ELSE Cur, {})
  /\ pc' = [pc EXCEPT !.stopAsked = TRUE]
  /\ UNCHANGED <<envCount, failures>>

\* the select of refreshLoop (part_001:132-136): a receive from a nil channel
\* is never ready, the timer of the delayer is ready after its delay
LoopSelect ==
  /\ Alive /\ pc.loop = "select"
  /\ \E ready \in IF pc.stopCh # NIL /\ pc.stopAsked
                  THEN {"timer", "stopCh"} ELSE {"timer"} :
       pc' = [pc EXCEPT !.loop = IF ready = "stopCh" THEN "exited" ELSE "pass"]
  /\ last' = Quiet
  /\ UNCHANGED <<progVars, pStatus, pTag, pDisk, envCount, failures>>

\* the pass of refreshLoop (part_001:137-139), then back to the select
LoopPass ==
  /\ Alive /\ pc.loop = "pass"
  /\ \E disksOk \in BOOLEAN :
       \/ \E outs \in PassOutcomes :
            /\ Fail(No(disksOk) + SumCost(outs, Ids))
            /\ Install(Refresh(Cur, disksOk, TRUE, TRUE, outs), {})
       \/ \E instOk \in BOOLEAN :
            /\ Fail(No(disksOk) + 1)
            /\ Install(Refresh(Cur, disksOk, instOk, FALSE,
                               [i \in Ids |-> NoFailure]), {})
  /\ pc' = [pc EXCEPT !.loop = "select"]
  /\ UNCHANGED envCount

NextLoop ==
  \/ SignalStop
  \/ LoopSelect
  \/ LoopPass
  \/ DoGetInstance({})
  \/ DoStopInstance({})
  \/ DoRestart({})
  \/ ProviderAdvance

\* a pass that started ends: LoopPass is enabled whenever the loop is inside
\* a pass and is the only step that leaves it, so its weak fairness is the
\* loop being outside a pass again and again
PassesEnd == []<>(pc.loop # "pass" \/ fault # "none")

\* the timer of the delayer fires and a pass that started ends
SpecLoop == Init /\ [][NextLoop]_vars /\ WF_vars(LoopSelect) /\ PassesEnd

(***************************************************************************)
(* SpecZero: the bucket operations on buckets of which some are zero       *)
(* values (var l InstanceList, or new(InstanceList) without Init): their   *)
(* root is nil and no sentinel is allocated.                               *)
(***************************************************************************)
InitZero ==
  /\ \E ids \in [Rec -> Rec], imgs \in [Rec -> Images], Z \in SUBSET ListNames :
       LET s == NewCluster IN
       /\ \A e \in Rec : ids[e] <= e /\ imgs[e] <= e
       /\ root = [l \in ListNames |-> IF l \in Z THEN NIL ELSE s.root[l]]
       /\ next = [n \in Node |-> IF n \in {RootOf(l) : l \in Z} THEN NIL ELSE s.next[n]]
       /\ prev = [n \in Node |-> IF n \in {RootOf(l) : l \in Z} THEN NIL ELSE s.prev[n]]
       /\ size = s.size
       /\ list = s.list /\ status = s.status /\ disk = s.disk
       /\ attrId = [n \in Node |-> IF n \in Rec THEN ids[n] ELSE NIL]
       /\ image = [n \in Node |-> IF n \in Rec THEN imgs[n] ELSE NIL]
       /\ instances = s.instances /\ used = s.used /\ disks = s.disks
       /\ pStatus = s.pStatus /\ pTag = s.pTag /\ pDisk = s.pDisk
       /\ pending = s.pending /\ fault = s.fault /\ last = s.last
  /\ envCount = 0
  /\ failures = 0
  /\ pc = NoPc

SpecZero == InitZero /\ [][NextList]_vars

(***************************************************************************)
(* SpecStart: as Spec, and a caller may call the exported Start() of any   *)
(* indexed instance, whatever its local status; Start is observed.         *)
(***************************************************************************)
DoStart ==
  /\ Alive
  /\ \E e \in instances, o \in StartOutcomes :
       LET s     == Start(Begin(Cur, "Start", e), e, o)
           names == {s.last.calls[k][1] : k \in DOMAIN s.last.calls}
       IN \* a call that is not made cannot fail
          /\ o.tagOk \/ "RemoveTags" \in names
          /\ o.fail = "none" \/ o.fail \in names
          /\ Install(s, {"Start"})
  /\ UNCHANGED <<envCount, failures, pc>>

NextStart == Next({"Start"}) \/ DoStart

SpecStart == Init /\ [][NextStart]_vars

(***************************************************************************)
(* SpecLive: SpecConc with the scheduling the tasks have.  refreshLoop is  *)
(* a goroutine behind a timer that fires again and again (part_001:        *)
(* 130-141), the follow-up of StopInstance is a goroutine behind a sleep   *)
(* (part_001:117-124), and the provider finishes the transitions it has    *)
(* begun.  Callers are under no obligation.                                *)
(***************************************************************************)
\* the provider finishes the transition of instance i
AdvanceOf(i) == ProviderAdvance /\ pStatus'[i] # pStatus[i]

\* the loop runs pass after pass: again and again a pass is behind its disk
\* listing
LoopRuns == []<>(pc.pass = "disks" \/ ~Alive)

\* a scheduled follow-up runs
FollowUpRuns == []<>((\A i \in Ids : pending[i] = 0) \/ ~Alive)

SpecLive ==
  /\ Init /\ [][NextConc]_vars
  /\ WF_vars(PassInstances) /\ WF_vars(PassTags)
  /\ \A i \in Ids : WF_vars(AdvanceOf(i))
  /\ LoopRuns /\ FollowUpRuns

(***************************************************************************)
(* Vocabulary of the claims.                                               *)
(***************************************************************************)
\* the instance is a node of the bucket's ring
InBucket(l, i) == i \in Members(Cur, l)
BucketsOf(i) == {l \in ListNames : InBucket(l, i)}
InNoBucket(i) == BucketsOf(i) = {} /\ list[i] = NoList
\* the collections, of the four, that hold the instance
Holders(i) == BucketsOf(i) \cup (IF i \in used THEN {"used"} ELSE {})

\* the state is the end of a reconciliation pass that ran to its end
PassDone == last.op = "Refresh" /\ last.err = ""
\* ... and in which the provider refused no call
PassNoError == PassDone /\ \A k \in DOMAIN last.calls : last.calls[k][3]

\* C1: every instance of the index is in at most one of the starting bucket,
\* the available bucket, the stopping bucket and the used map.
C1_AtMostOneCollection ==
  \A i \in instances : Cardinality(Holders(i)) <= 1

\* C2: at the end of a pass without provider error, every instance of the
\* pass's tag listing is in the used map and in no bucket, whatever status the
\* instance listing reported for it.
C2_TaggedIsUsedAndUnbucketed ==
  PassNoError => \A i \in last.tags : i \in used /\ InNoBucket(i)

\* C7: at the end of a pass without provider error, every instance of the
\* used map is in that pass's tag listing.
C7_UsedWithinTagListing ==
  PassNoError => used \subseteq last.tags

\* the calls of the last operation with the given name and target
CallsOf(name, i) ==
  {k \in DOMAIN last.calls : last.calls[k][1] = name /\ last.calls[k][2] = i}
\* Start() calls of the last operation that got past the status test: each
\* one opens with its tag clear
StartAttempts(i) == Cardinality(CallsOf("RemoveTags", i))
StartSucceeded(i) == \E k \in CallsOf("StartInstance", i) : last.calls[k][3]
\* the pass saw the instance reported Stopped, with a disk, and not reserved
SeenStopped(i) == last.nodes[i] = "Stopped" /\ disk[i] # NIL /\ i \notin used

\* C8: an instance that a pass sees Stopped, with a resolved disk and not
\* reserved, is in no bucket at the end of the pass, still in the index, and
\* got exactly one Start attempt, failed or not; and the pass has gone through
\* every instance with a disk, setting its attributes from the listing.
C8_StoppedIsStartedOnce ==
  PassDone =>
    /\ \A i \in Ids : SeenStopped(i) =>
         InNoBucket(i) /\ i \in instances /\ StartAttempts(i) = 1
    /\ \A j \in Ids : disk[j] # NIL =>
         status[j] = last.nodes[j] /\ j \in Range(last.visited)

\* a pass in which the Start of a Stopped instance failed and a later
\* instance of the listing was still put in its bucket
C8_Witness ==
  /\ PassDone
  /\ \E i, j \in Ids :
       /\ i < j /\ SeenStopped(i) /\ ~StartSucceeded(i) /\ StartAttempts(i) = 1
       /\ InNoBucket(i) /\ i \in instances
       /\ status[j] = "Running" /\ InBucket("avavilable", j)

\* the rings and back-references of all buckets, and their populations
Buckets == <<root, next, prev, size, list>>
Available == Members(Cur, "avavilable")

\* InNoBucket in the state a step leads to
InNoBucketAfter(i) ==
  /\ \A l \in ListNames : i \notin Members(Cur', l)
  /\ list'[i] = NoList

\* the step is a GetInstance call
GetStep == last'.op = "GetInstance"
\* the tag call of the last GetInstance was refused
TagFailed == \E k \in DOMAIN last.calls :
               last.calls[k][1] = "AddTags" /\ ~last.calls[k][3]

\* C4: an instance returned by GetInstance(imageId) has that image, was in the
\* available bucket before the call, has its attributes and its disk set, and
\* after the call is in the used map and in no bucket, the available bucket
\* having one instance less.
C4_ReturnedInstance ==
  [][(GetStep /\ last'.ret # NIL) =>
       LET e == last'.ret IN
       /\ image[e] = last'.arg /\ image'[e] = last'.arg
       /\ e \in Available
       /\ attrId'[e] = e /\ status'[e] \in Statuses /\ disk'[e] # NIL
       /\ e \in used'
       /\ InNoBucketAfter(e)
       /\ Available' = Available \ {e}
       /\ size'["avavilable"] = size["avavilable"] - 1]_vars

\* GetInstance has just returned an instance
C4_Witness ==
  /\ last.op = "GetInstance" /\ last.ret # NIL
  /\ last.ret \in used /\ InNoBucket(last.ret)

\* C5: when GetInstance returns nil (no instance of the image in the
\* available bucket, or the tag call failed), the used map is unchanged and
\* the available bucket holds the same instances, as many as before; after a
\* failed tag call the popped instance is in the available bucket again.
C5_NilLeavesPoolIntact ==
  [][(GetStep /\ last'.ret = NIL) =>
       /\ used' = used
       /\ Available' = Available
       /\ size'["avavilable"] = size["avavilable"]
       /\ Cardinality(Available') = size'["avavilable"]
       /\ TagFailed' => \E k \in DOMAIN last'.calls :
                          /\ last'.calls[k][2] \in Available'
                          /\ list'[last'.calls[k][2]] = "avavilable"
       /\ ~TagFailed' => \A e \in Available : image[e] # last'.arg]_vars

\* GetInstance has just returned nil because the tag call failed
C5_Witness ==
  /\ last.op = "GetInstance" /\ last.ret = NIL /\ TagFailed
  /\ Available # {}

\* the step is a StopInstance call
StopStep == last'.op = "StopInstance"
\* what a failed StopInstance must leave alone
StopUntouched == UNCHANGED <<used, Buckets, status, pending, instances>>

\* C6: StopInstance(id) returns an error and changes neither the used map, nor
\* a bucket, nor the local status, nor the scheduled follow-ups when id is not
\* in the index, when id is not in the used map, or when Stop() fails; the
\* first two cases, and a local status other than Running, make no provider
\* call.
C6_StopInstanceFailures ==
  [][StopStep =>
       LET id == last'.arg IN
       /\ id \notin instances =>
            last'.err = "not found" /\ last'.calls = <<>>
       /\ (id \in instances /\ id \notin used) =>
            last'.err = "not used" /\ last'.calls = <<>>
       /\ (id \in instances /\ id \in used /\ status[id] # "Running") =>
            last'.err = "InvalidState" /\ last'.calls = <<>>
       /\ (\E k \in DOMAIN last'.calls :
             last'.calls[k][1] = "StopInstance" /\ ~last'.calls[k][3]) =>
            last'.err = "provider"
       /\ last'.err # "" => StopUntouched]_vars

\* StopInstance has just failed in Stop(), the provider refusing the stop
C6_Witness ==
  /\ last.op = "StopInstance" /\ last.err = "provider"
  /\ last.arg \in used

\* a sequence without its k-th element
Without(q, k) == SubSeq(q, 1, k - 1) \o SubSeq(q, k + 1, Len(q))
\* the rings and populations of the buckets other than l do not change
OthersUntouched(l) ==
  \A m \in ListNames \ {l} :
    Ring(Cur', m) = Ring(Cur, m) /\ size'[m] = size[m]
\* no ring of the next state holds two nodes with one identifier, and every
\* population count is the length of its ring
NoDuplicateAfter ==
  \A l \in ListNames :
    LET r == Ring(Cur', l) IN
    /\ \A j, k \in DOMAIN r : j # k => attrId'[r[j]] # attrId'[r[k]]
    /\ size'[l] = Len(r)

\* C9: Push(e) on a bucket that holds an instance with e's identifier returns
\* nil and leaves ring, node order and population as they were; and no
\* sequence of Push, Remove and Find calls puts two nodes with one identifier
\* in a bucket.
C9_PushRefusesDuplicate ==
  [][/\ (last'.op = "Push" /\
         \E n \in Members(Cur, last'.on) : attrId[n] = attrId[last'.arg]) =>
           last'.ret = NIL /\ UNCHANGED Buckets
     /\ (last'.op = "Push" /\
         \A n \in Members(Cur, last'.on) : attrId[n] # attrId[last'.arg]) =>
           /\ last'.ret = last'.arg
           /\ Ring(Cur', last'.on) = Append(Ring(Cur, last'.on), last'.arg)
     /\ last'.op \in ListOps => NoDuplicateAfter]_vars

\* a Push was refused because another record of the bucket has the identifier
C9_Witness ==
  /\ last.op = "Push" /\ last.ret = NIL
  /\ \E n \in Members(Cur, last.on) :
       n # last.arg /\ attrId[n] = attrId[last.arg]
  /\ list[last.arg] = NoList

\* C10: Find(imageId) returns the first node, head to tail, with that image,
\* unlinks that node alone, clears its links and its bucket reference, takes
\* one off the population and keeps the order of the others; without a match
\* it returns nil and changes nothing.
C10_FindPopsFirstMatch ==
  [][last'.op = "Find" =>
       LET l == last'.on
           r == Ring(Cur, l)
           hits == {k \in DOMAIN r : image[r[k]] = last'.arg}
       IN IF hits = {}
          THEN last'.ret = NIL /\ UNCHANGED Buckets
          ELSE LET k == CHOOSE h \in hits : \A g \in hits : h <= g IN
               /\ last'.ret = r[k]
               /\ Ring(Cur', l) = Without(r, k)
               /\ size'[l] = size[l] - 1
               /\ next'[r[k]] = NIL /\ prev'[r[k]] = NIL
               /\ list'[r[k]] = NoList
               /\ OthersUntouched(l)]_vars

\* Find took the middle one of three nodes and left the other two in order
C10_Witness ==
  /\ last.op = "Find" /\ Len(last.visited) = 3
  /\ last.ret = last.visited[2]
  /\ Ring(Cur, last.on) = <<last.visited[1], last.visited[3]>>
  /\ size[last.on] = 2

\* C3: an instance handed to a caller and not released by a successful
\* StopInstance is not in the available bucket, whatever the interleaving of
\* GetInstance with the reconciliation pass.
C3_HandedNotAvailable ==
  \A i \in pc.handed : ~InBucket("avavilable", i)


\* C11: when Find calls for the same image run concurrently on one bucket,
\* no call fails, an instance is returned to at most one caller, the
\* instances the callers hold are out of the ring, and the population count
\* is the number of nodes left in the ring.
C11_ConcurrentFindExclusive ==
  /\ fault = "none"
  /\ \A c, d \in Callers : c # d => pc.got[c] \cap pc.got[d] = {}
  /\ \A c \in Callers : pc.got[c] \cap Members(Cur, "avavilable") = {}
  /\ size["avavilable"] = Len(Ring(Cur, "avavilable"))


\* C12: once the stop signal is given, the refresh loop eventually
\* terminates (or the process has died).
C12_StopTerminatesLoop ==
  pc.stopAsked ~> (pc.loop = "exited" \/ fault # "none")


\* C13: a Push on a zero-value bucket completes without failing or blocking;
\* afterwards Len() is 1 and the pushed instance is the only node of the ring.
C13_ZeroValuePush ==
  [][(last'.op = "Push" /\ root[last'.on] = NIL)
       => /\ fault' = "none"
          /\ ListLen(Cur', last'.on) = 1
          /\ Ring(Cur', last'.on) = <<last'.arg>>]_vars


\* the names of the provider calls of the last operation, in order
CallNames == [k \in DOMAIN last.calls |-> last.calls[k][1]]

\* C14: Start() on an instance whose local status is not Stopped returns an
\* InvalidState error and makes no provider call; otherwise it clears the tag,
\* reinitializes the disk and starts the instance, in that order, whatever
\* the tag clear answered; when the disk reinitialization fails, its error is
\* returned and no start call is made.
C14_StartSequence ==
  [][last'.op = "Start" =>
       IF status[last'.arg] # "Stopped"
       THEN last'.calls = <<>> /\ last'.err = "InvalidState"
       ELSE \/ /\ CallNames' = <<"RemoveTags", "ReInitDisk", "StartInstance">>
               /\ last'.calls[2][3]
               /\ (last'.err = "") = last'.calls[3][3]
            \/ /\ CallNames' = <<"RemoveTags", "ReInitDisk">>
               /\ ~last'.calls[2][3]
               /\ last'.err # ""]_vars

\* a Start() whose tag clear failed and that went on to reinitialize the disk
\* and to start the instance
C14_Witness ==
  /\ last.op = "Start" /\ Len(last.calls) = 3
  /\ ~last.calls[1][3] /\ last.calls[2][3] /\ last.calls[3][3]
  /\ last.err = ""


\* C15: in every state reached by interleaving the pass, GetInstance and
\* StopInstance, each bucket is a consistent ring: every node reachable from
\* the root names the bucket, every node n that names the bucket has
\* n.next.prev = n and n.prev.next = n, and the population count is the
\* number of nodes reachable from the root.
C15_BucketsAreRings ==
  \A l \in ListNames :
    /\ \A n \in Members(Cur, l) : n \in Rec /\ list[n] = l
    /\ \A n \in Rec : list[n] = l =>
         /\ next[n] # NIL /\ prev[n] # NIL
         /\ prev[next[n]] = n /\ next[prev[n]] = n
    /\ size[l] = Len(Ring(Cur, l))


\* the bucket of a provider status
BucketFor(st) ==
  CASE st = "Running" -> "avavilable" [] st = "Starting" -> "starting"
    [] st = "Stopping" -> "stopping" [] OTHER -> NoList
\* the position of a node in a ring (0: not in it)
PosIn(r, n) == IF \E k \in DOMAIN r : r[k] = n
               THEN CHOOSE k \in DOMAIN r : r[k] = n ELSE 0
\* the pass that ends here listed the instance Running, Starting or Stopping;
\* the instance has a disk and is not reserved
Placeable(i) ==
  /\ last.nodes[i] \in {"Running", "Starting", "Stopping"}
  /\ disk[i] # NIL /\ i \notin used

\* C16: at the end of a pass without provider error, every listed instance
\* with a disk that is not reserved is in the bucket of its reported status
\* and in no other; the instances that were in that bucket already are not
\* moved: they keep their order in the ring, and the bucket's population
\* count is the number of nodes of its ring.
C16_StatusDecidesBucket ==
  [][PassNoError' =>
       \A i \in Ids : Placeable(i)' =>
         LET l == BucketFor(last'.nodes[i]) IN
         /\ list'[i] = l
         /\ {b \in ListNames : i \in Members(Cur', b)} = {l}
         /\ size'[l] = Len(Ring(Cur', l))
         /\ \A j \in Ids :
              (/\ Placeable(j)' /\ BucketFor(last'.nodes[j]) = l
               /\ list[i] = l /\ list[j] = l
               /\ PosIn(Ring(Cur, l), i) < PosIn(Ring(Cur, l), j))
              => PosIn(Ring(Cur', l), i) < PosIn(Ring(Cur', l), j)]_vars

\* the end of a pass that found one instance Running and one Stopping, and
\* has the first in the available bucket and the second in the stopping one
C16_Witness ==
  /\ PassNoError
  /\ \E i, j \in Ids :
       /\ Placeable(i) /\ last.nodes[i] = "Running" /\ InBucket("avavilable", i)
       /\ Placeable(j) /\ last.nodes[j] = "Stopping" /\ InBucket("stopping", j)


\* C17: a pass without provider error skips every listed instance for which
\* the cached disk list holds no disk (and which the tag listing does not
\* name): its attributes and its bucket are as before the pass and no call of
\* Start() is made for it; the instance has a record in the index all the
\* same.
C17_DisklessSkipped ==
  [][PassNoError' =>
       \A i \in Ids : (i \notin disks' /\ i \notin last'.tags) =>
         /\ i \in instances'
         /\ status'[i] = status[i] /\ list'[i] = list[i]
         /\ \A k \in DOMAIN last'.calls :
              last'.calls[k][1] \in {"RemoveTags", "ReInitDisk", "StartInstance"}
                => last'.calls[k][2] # i]_vars


\* the listing calls of the last operation that the provider refused
FailedListings ==
  {last.calls[k][1] : k \in {n \in DOMAIN last.calls : ~last.calls[n][3]}}
     \cap {"DescribeDisks", "DescribeInstances", "DescribeResourceByTags"}

\* C18: a pass in which a listing call fails stops at that call: after a
\* failed disk listing the instances are not listed and not reconciled, and
\* after any failed listing the index, the used map and the buckets are as
\* they were before the pass.
C18_ListingFailureAborts ==
  [][(last'.op = "Refresh" /\ FailedListings' # {}) =>
       /\ "DescribeDisks" \in FailedListings' =>
            \A k \in DOMAIN last'.calls : last'.calls[k][1] = "DescribeDisks"
       /\ instances' = instances /\ used' = used
       /\ Buckets' = Buckets]_vars


\* C20: the restart follow-up of a StopInstance runs only on an instance that
\* is out of service: in the state in which it overwrites the status with
\* Stopped and calls Start(), the instance is neither in the used map nor a
\* member of the available bucket.
C20_RestartOutOfService ==
  [][\A i \in Ids :
       pending'[i] < pending[i] =>
         i \notin used /\ ~InBucket("avavilable", i)]_vars


\* C19: an instance released by a successful StopInstance is a member of the
\* available bucket at some later time, whatever the interleaving with the
\* loop and the follow-up, when both keep running, the provider refuses no
\* call and finishes its transitions (behaviours are followed up to the first
\* broken ring).
C19_ReleasedComesBack ==
  \A i \in Ids :
    \/ [](i \notin pc.released)
    \/ <>(i \in pc.released /\ (InBucket("avavilable", i) \/ ~Alive))

====
